---- MODULE Spec2Model ----
(***************************************************************************)
(* Model of the token analysis pipeline of wallets_scan_sol:                *)
(*   app/storage.py  - per-mint transaction log files, result store         *)
(*   app/detector.py - mint extraction, the four heuristics, the pipeline   *)
(*   app/helius_client.py - the metadata lookup                             *)
(*                                                                         *)
(* Strings whose characters matter (mints, URIs) are tuples of one-char     *)
(* strings.  Optional[x] is a set with at most one element: None is {}.     *)
(* A lamport amount is kept as two limbs in base LAMPORTS_PER_SOL           *)
(* (hi * 10^9 + lo), because it does not fit a 32 bit integer.              *)
(***************************************************************************)
EXTENDS Integers, Sequences, FiniteSets, TLC

VARIABLES
    mintFiles,      \* data/transactions/<mint>.json, one file value per mint
    resultsFile,    \* data/scam_results.json
    resultsCache,   \* Storage._results_cache
    api_key,        \* HeliusClient.api_key is set (non-empty)
    pc,             \* per task: the await point the coroutine is suspended at
    frame,          \* per task: the local variables of the running call
    outcome,        \* per task: how the last analyze_transaction call ended
    hist,           \* history of what the calls did (observation only)
    probe,          \* inputs of a heuristic applied on its own
    probeOut        \* its output: <<>> before it ran, <<value>> after

vars == <<mintFiles, resultsFile, resultsCache, api_key, pc, frame, outcome,
          hist, probe, probeOut>>

sysVars == <<mintFiles, resultsFile, resultsCache, api_key, pc, frame,
             outcome, hist>>

----------------------------------------------------------------------------
(* Bounds of the model *)

MaxBundleTxs == 5
MaxPurchaseTxs == 2
MaxTokenTxs == 2
MaxCalls == 2
MaxSeqCalls == 3
MaxRestarts == 1
MaxFaults == 1

\* calls of analyze_transaction in a behaviour under fair scheduling
MaxFairCalls == 2

----------------------------------------------------------------------------
(* Generic helpers *)

None == {}

Some(x) == {x}

Range(s) == {s[i] : i \in 1..Len(s)}

RECURSIVE Perms(_)
Perms(S) ==
    IF S = {} THEN {<<>>}
    ELSE UNION {{<<x>> \o p : p \in Perms(S \ {x})} : x \in S}

----------------------------------------------------------------------------
(* Program constants, detector.py:10-13 *)

LAMPORTS_PER_SOL == 1000000000

LARGE_PURCHASE_THRESHOLD_SOL == 30

PUMP_SUFFIX == <<"p", "u", "m", "p">>

IPFS_PREFIX ==
    <<"h", "t", "t", "p", "s", ":", "/", "/", "i", "p", "f", "s", ".", "i", "o", "/">>

----------------------------------------------------------------------------
(* Strings *)

LowerChar(c) ==
    CASE c = "H" -> "h" [] c = "T" -> "t" [] c = "P" -> "p" [] c = "S" -> "s"
      [] c = "I" -> "i" [] c = "F" -> "f" [] c = "O" -> "o" [] c = "Q" -> "q"
      [] c = "E" -> "e" [] c = "V" -> "v" [] c = "L" -> "l" [] c = "M" -> "m"
      [] c = "U" -> "u"
      [] OTHER -> c

lower(s) == [i \in 1..Len(s) |-> LowerChar(s[i])]

startswith(s, prefix) ==
    /\ Len(s) >= Len(prefix)
    /\ SubSeq(s, 1, Len(prefix)) = prefix

endswith(s, suffix) ==
    /\ Len(s) >= Len(suffix)
    /\ SubSeq(s, Len(s) - Len(suffix) + 1, Len(s)) = suffix

----------------------------------------------------------------------------
(* Amounts.  NativeTransfer.amount is an int of lamports, here hi*10^9+lo   *)
(* with 0 <= lo < 10^9 (hi < 0 for a negative amount).  amount /            *)
(* LAMPORTS_PER_SOL is the number hi + lo/10^9, kept as units and nanos.    *)

Lamports(hi, lo) == [hi |-> hi, lo |-> lo]

Sol(units, nanos) == [units |-> units, nanos |-> nanos]

DivLamportsPerSol(amount) ==
    Sol(amount.hi + (amount.lo \div LAMPORTS_PER_SOL), amount.lo % LAMPORTS_PER_SOL)

SolGT(a, b) ==
    \/ a.units > b.units
    \/ a.units = b.units /\ a.nanos > b.nanos

----------------------------------------------------------------------------
(* models.py: HeliusTransaction.  tokenTransfers is the list of the mints   *)
(* of the token transfers, accountData the list, per account, of the mints  *)
(* of its tokenBalanceChanges.  The other fields are passed through.        *)

Tx(sig, slot, ts, native, tt, ad) ==
    [signature |-> sig, slot |-> slot, timestamp |-> ts,
     nativeTransfers |-> native, tokenTransfers |-> tt, accountData |-> ad]

----------------------------------------------------------------------------
(* detector.py: the heuristics *)

\* the keys of slots_txs in insertion order: the slots by first appearance
RECURSIVE SlotOrder(_)
SlotOrder(transactions) ==
    IF transactions = <<>> THEN <<>>
    ELSE LET front == SubSeq(transactions, 1, Len(transactions) - 1)
             last == transactions[Len(transactions)]
             order == SlotOrder(front)
         IN IF last.slot \in Range(order) THEN order ELSE Append(order, last.slot)

\* len(slots_txs[slot])
SlotCount(transactions, slot) ==
    Cardinality({i \in 1..Len(transactions) : transactions[i].slot = slot})

\* mutant: reports the number of slots instead of the group's size
BundleCountsSlots(transactions) ==
    IF Len(transactions) < 2 THEN <<FALSE, None>>
    ELSE LET order == SlotOrder(transactions)
             hits == {i \in 1..Len(order) : SlotCount(transactions, order[i]) >= 2}
         IN IF hits = {} THEN <<FALSE, None>>
            ELSE <<TRUE, Some(Len(order))>>

\* mutant: the last slot holding two transactions is reported
BundleLastSlot(transactions) ==
    IF Len(transactions) < 2 THEN <<FALSE, None>>
    ELSE LET order == SlotOrder(transactions)
             hits == {i \in 1..Len(order) : SlotCount(transactions, order[i]) >= 2}
         IN IF hits = {} THEN <<FALSE, None>>
            ELSE LET last == CHOOSE i \in hits : \A j \in hits : i >= j
                 IN <<TRUE, Some(SlotCount(transactions, order[last]))>>

\* mutant: a slot with a single transaction counts as a bundle
BundleOfOne(transactions) ==
    IF Len(transactions) < 1 THEN <<FALSE, None>>
    ELSE LET order == SlotOrder(transactions)
             hits == {i \in 1..Len(order) : SlotCount(transactions, order[i]) >= 1}
         IN IF hits = {} THEN <<FALSE, None>>
            ELSE LET first == CHOOSE i \in hits : \A j \in hits : i <= j
                 IN <<TRUE, Some(SlotCount(transactions, order[first]))>>

_check_bundle_pattern(transactions) ==
    IF Len(transactions) < 2 THEN <<FALSE, None>>
    ELSE LET order == SlotOrder(transactions)
             hits == {i \in 1..Len(order) : SlotCount(transactions, order[i]) >= 2}
         IN IF hits = {} THEN <<FALSE, None>>
            ELSE LET first == CHOOSE i \in hits : \A j \in hits : i <= j
                 IN <<TRUE, Some(SlotCount(transactions, order[first]))>>

\* every transfer.amount / LAMPORTS_PER_SOL, in the order the loops visit them
RECURSIVE SolAmounts(_)
SolAmounts(transactions) ==
    IF transactions = <<>> THEN <<>>
    ELSE LET tx == Head(transactions)
         IN [i \in 1..Len(tx.nativeTransfers) |->
                DivLamportsPerSol(tx.nativeTransfers[i])]
            \o SolAmounts(Tail(transactions))

RECURSIVE MaxSolAmount(_, _)
MaxSolAmount(amounts, max_sol_amount) ==
    IF amounts = <<>> THEN max_sol_amount
    ELSE MaxSolAmount(Tail(amounts),
                      IF SolGT(Head(amounts), max_sol_amount)
                      THEN Head(amounts) ELSE max_sol_amount)

\* mutant: the threshold test is >= instead of >
LargePurchaseAtThreshold(transactions) ==
    LET max_sol_amount == MaxSolAmount(SolAmounts(transactions), Sol(0, 0))
        has_large == ~SolGT(Sol(LARGE_PURCHASE_THRESHOLD_SOL, 0), max_sol_amount)
    IN <<has_large, IF has_large THEN Some(max_sol_amount) ELSE None>>

_check_large_purchase(transactions) ==
    LET max_sol_amount == MaxSolAmount(SolAmounts(transactions), Sol(0, 0))
        has_large == SolGT(max_sol_amount, Sol(LARGE_PURCHASE_THRESHOLD_SOL, 0))
    IN <<has_large, IF has_large THEN Some(max_sol_amount) ELSE None>>

----------------------------------------------------------------------------
(* helius_client.py: get_token_metadata.  resp is what the HTTP GET did:    *)
(*   kind "network_error"  client.get raised (timeout, connection)          *)
(*   kind "http_error"     raise_for_status raised HTTPStatusError          *)
(*   kind "not_dict"       the body is not a JSON object (json() or .get    *)
(*                         raises)                                          *)
(*   kind "ok"             a JSON object; uri is data.get('uri') as an      *)
(*                         Optional; metadata is "missing", "null" or       *)
(*                         "dict", and then nested is its 'uri'             *)

TokenMetadata(mint, uri) == [mint |-> mint, uri |-> uri]

Truthy(opt) == opt # None /\ opt # Some(<<>>)

get_token_metadata(key, resp, mint) ==
    IF ~key THEN None
    ELSE IF resp.kind # "ok" THEN None
    ELSE IF Truthy(resp.uri) THEN Some(TokenMetadata(mint, resp.uri))
    ELSE IF resp.metadata = "missing" THEN Some(TokenMetadata(mint, None))
    ELSE IF resp.metadata = "null" THEN None
    ELSE Some(TokenMetadata(mint, resp.nested))

\* mutant: the URI is compared without lower()
MetadataUrlCaseSensitive(metadata) ==
    IF metadata = None THEN FALSE
    ELSE LET m == CHOOSE x \in metadata : TRUE
         IN IF ~Truthy(m.uri) THEN FALSE
            ELSE LET uri == CHOOSE u \in m.uri : TRUE
                 IN ~startswith(uri, IPFS_PREFIX)

\* metadata is what get_token_metadata returned; it raises nothing, so the
\* except branch of _check_metadata_url (return False) is never taken
_check_metadata_url(metadata) ==
    IF metadata = None THEN FALSE
    ELSE LET m == CHOOSE x \in metadata : TRUE
         IN IF ~Truthy(m.uri) THEN FALSE
            ELSE LET uri == lower(CHOOSE u \in m.uri : TRUE)
                 IN ~startswith(uri, IPFS_PREFIX)

_check_mint_suffix(mint) == ~endswith(mint, PUMP_SUFFIX)

\* mutant: the latest timestamp
MinTakesLatest(S) == CHOOSE x \in S : \A y \in S : x >= y

Min(S) == CHOOSE x \in S : \A y \in S : x <= y

IfAppend(cond, reasons, reason) == IF cond THEN Append(reasons, reason) ELSE reasons

\* mutant: is_scam forgets the mint suffix heuristic
AnalyzeTokenNoSuffix(mint, transactions, current_tx, metadata) ==
    LET bundle == _check_bundle_pattern(transactions)
        large == _check_large_purchase(transactions)
        invalid_metadata == _check_metadata_url(metadata)
        invalid_suffix == _check_mint_suffix(mint)
        r1 == IfAppend(bundle[1], <<>>, "bundle")
        r2 == IfAppend(large[1], r1, "large_purchase")
        r3 == IfAppend(invalid_metadata, r2, "metadata_url")
        r4 == IfAppend(invalid_suffix, r3, "mint_suffix")
        timestamps == [i \in 1..Len(transactions) |-> transactions[i].timestamp]
    IN [mint |-> mint,
        is_scam |-> bundle[1] \/ large[1] \/ invalid_metadata,
        reasons |-> r4,
        has_bundle |-> bundle[1],
        has_large_purchase |-> large[1],
        invalid_metadata_url |-> invalid_metadata,
        invalid_mint_suffix |-> invalid_suffix,
        max_purchase_sol |-> large[2],
        bundle_index_gap |-> bundle[2],
        total_transactions |-> Len(transactions),
        first_seen |-> IF timestamps # <<>> THEN Min(Range(timestamps))
                       ELSE current_tx.timestamp,
        last_updated |-> current_tx.timestamp]

_analyze_token(mint, transactions, current_tx, metadata) ==
    LET bundle == _check_bundle_pattern(transactions)
        large == _check_large_purchase(transactions)
        invalid_metadata == _check_metadata_url(metadata)
        invalid_suffix == _check_mint_suffix(mint)
        r1 == IfAppend(bundle[1], <<>>, "bundle")
        r2 == IfAppend(large[1], r1, "large_purchase")
        r3 == IfAppend(invalid_metadata, r2, "metadata_url")
        r4 == IfAppend(invalid_suffix, r3, "mint_suffix")
        timestamps == [i \in 1..Len(transactions) |-> transactions[i].timestamp]
    IN [mint |-> mint,
        is_scam |-> bundle[1] \/ large[1] \/ invalid_metadata \/ invalid_suffix,
        reasons |-> r4,
        has_bundle |-> bundle[1],
        has_large_purchase |-> large[1],
        invalid_metadata_url |-> invalid_metadata,
        invalid_mint_suffix |-> invalid_suffix,
        max_purchase_sol |-> large[2],
        bundle_index_gap |-> bundle[2],
        total_transactions |-> Len(transactions),
        first_seen |-> IF timestamps # <<>> THEN Min(Range(timestamps))
                       ELSE current_tx.timestamp,
        last_updated |-> current_tx.timestamp]

----------------------------------------------------------------------------
(* The mints and the transactions the calls are made with *)

MintPump == <<"A", "p", "u", "m", "p">>

MintOther == <<"B", "1", "2", "3">>

Mints == {MintPump, MintOther}

Tasks == {"t1", "t2"}

\* sig1 for MintPump, 35 SOL
T1 == Tx("sig1", 100, 5, <<Lamports(35, 0)>>, <<MintPump>>, <<>>)

\* sig1 submitted again with other fields
T1r == Tx("sig1", 102, 3, <<>>, <<MintPump>>, <<>>)

\* sig2 names MintPump twice and MintOther in a balance change; an empty mint
\* string is skipped
T2 == Tx("sig2", 100, 7, <<>>, <<MintPump, MintPump>>, << <<MintOther, <<>> >> >>)

\* sig3 names no mint
T3 == Tx("sig3", 101, 4, <<Lamports(1, 0)>>, <<>>, << <<>> >>)

TxPool == {T1, T1r, T2, T3}

NoTx == Tx("", 0, 0, <<>>, <<>>, <<>>)

----------------------------------------------------------------------------
(* Files.  A file is absent, holds JSON (data is the decoded value), or is  *)
(* empty: opened with 'w' (truncated) and not written yet; json.loads of an *)
(* empty file raises.                                                       *)

Absent == [st |-> "absent", data |-> <<>>]

Truncated == [st |-> "empty", data |-> <<>>]

Json(d) == [st |-> "json", data |-> d]

exists(f) == f.st # "absent"

----------------------------------------------------------------------------
(* storage.py *)

\* initialize: the cache a fresh process builds from the results file
initialize(f) ==
    IF exists(f) /\ f.st = "json" THEN f.data ELSE <<>>

\* get_token_transactions when the read raises nothing
get_token_transactions(f) ==
    IF ~exists(f) THEN <<>>
    ELSE IF f.st = "json" THEN f.data ELSE <<>>

\* add_transaction, the read of the existing log when it raises nothing
\* worse than json.loads on an empty file
LoadTransactions(f) ==
    IF exists(f) /\ f.st = "json" THEN f.data ELSE <<>>

\* mutant: only the last entry is compared
HasSignatureLastOnly(transactions, sig) ==
    /\ transactions # <<>>
    /\ transactions[Len(transactions)].signature = sig

\* any(t.get('signature') == tx_dict['signature'] for t in transactions)
HasSignature(transactions, sig) ==
    \E i \in 1..Len(transactions) : transactions[i].signature = sig

\* mutant: the cache is replaced by the one result
CachePutAlone(cache, result) == [m \in {result.mint} |-> result]

\* mutant: a result already cached for the mint is kept
CachePutKeepsFirst(cache, result) ==
    [m \in DOMAIN cache \cup {result.mint} |->
        IF m \in DOMAIN cache THEN cache[m] ELSE result]

\* save_result line 78: self._results_cache[result.mint] = result
CachePut(cache, result) ==
    [m \in DOMAIN cache \cup {result.mint} |->
        IF m = result.mint THEN result ELSE cache[m]]

get_result(cache, mint) ==
    IF mint \in DOMAIN cache THEN Some(cache[mint]) ELSE None

\* list(self._results_cache.values()) as the set of the values: the order is
\* the dict's and is not modelled; a value carries the mint it is keyed by
get_all_results(cache) == {cache[m] : m \in DOMAIN cache}

----------------------------------------------------------------------------
(* detector.py: _extract_mints.  list(set) has no defined order: the call   *)
(* iterates the mints in any order.                                         *)

_extract_mints(transaction) ==
    {m \in Range(transaction.tokenTransfers) : m # <<>>}
    \cup {m \in UNION {Range(ad) : ad \in Range(transaction.accountData)} : m # <<>>}

----------------------------------------------------------------------------
(* The state of the calls *)

EmptyFrame ==
    [transaction |-> NoTx,      \* the HeliusTransaction of the call
     mints |-> <<>>,            \* the mints the for loop has not finished
     transactions |-> <<>>,     \* add_transaction: the list it writes
     token_transactions |-> <<>>,
     results |-> <<>>,
     data |-> <<>>]             \* save_result: the dict it writes

\* what the caller of analyze_transaction gets: the returned list, or an
\* exception.  error: the caller is told that something failed.
NoOutcome == [kind |-> "none", results |-> <<>>, error |-> FALSE]

Returned(results) == [kind |-> "returned", results |-> results, error |-> FALSE]

Raised == [kind |-> "raised", results |-> <<>>, error |-> TRUE]

NoProbe ==
    [txs |-> <<>>, mint |-> <<>>, key |-> FALSE,
     resp |-> [kind |-> "network_error", uri |-> None, metadata |-> "missing",
               nested |-> None],
     cur |-> NoTx]

HistInit ==
    [calls |-> 0,                                 \* calls started
     restarts |-> 0,
     faults |-> 0,                                \* I/O errors injected
     appended |-> [m \in Mints |-> {}],           \* signatures whose append returned
     after_append |-> [t \in Tasks |-> <<>>],     \* the log as the call's append left it
     persist_failed |-> [t \in Tasks |-> FALSE],  \* a results write of the call raised
     tx |-> [t \in Tasks |-> NoTx],               \* the transaction of the task's last call
     failed_mint |-> [t \in Tasks |-> <<>>],      \* the mint whose log write raised
     computed |-> [t \in Tasks |-> <<>>],         \* the results the call had when it raised
     put |-> <<>>]                                \* the last result put per mint

SysInit ==
    /\ mintFiles = [m \in Mints |-> Absent]
    /\ resultsFile = Absent
    /\ resultsCache = <<>>
    /\ api_key \in BOOLEAN
    /\ pc = [t \in Tasks |-> "idle"]
    /\ frame = [t \in Tasks |-> EmptyFrame]
    /\ outcome = [t \in Tasks |-> NoOutcome]
    /\ hist = HistInit

Init ==
    /\ SysInit
    /\ probe = NoProbe
    /\ probeOut = <<>>

Mint(t) == Head(frame[t].mints)

----------------------------------------------------------------------------
(* Continuations: the code that runs, without suspending, from one await to *)
(* the next.                                                                *)

\* top of the for loop for Head(fr.mints), detector.py:35-36, and
\* add_transaction up to its first await, storage.py:44-59
EnterMint(t, fr, h) ==
    LET mint == Head(fr.mints)
    IN IF exists(mintFiles[mint])
       THEN /\ pc' = [pc EXCEPT ![t] = "add_read"]
            /\ frame' = [frame EXCEPT ![t] = fr]
            /\ hist' = h
       ELSE /\ pc' = [pc EXCEPT ![t] = "add_open"]
            /\ frame' = [frame EXCEPT ![t] =
                            [fr EXCEPT !.transactions = <<fr.transaction>>]]
            /\ hist' = h

\* end of a loop iteration: the next mint, or return results, detector.py:35,45
NextMint(t, fr, h) ==
    LET rest == [fr EXCEPT !.mints = Tail(@), !.transactions = <<>>,
                           !.token_transactions = <<>>, !.data = <<>>]
    IN IF rest.mints = <<>>
       THEN /\ pc' = [pc EXCEPT ![t] = "idle"]
            /\ frame' = [frame EXCEPT ![t] = EmptyFrame]
            /\ outcome' = [outcome EXCEPT ![t] = Returned(fr.results)]
            /\ hist' = h
       ELSE /\ EnterMint(t, rest, h)
            /\ UNCHANGED outcome

\* _analyze_token after the metadata lookup, results.append, and save_result
\* up to its await, detector.py:40-43, storage.py:78-82
EvaluateAndPut(t, fr, token_transactions, metadata, h) ==
    LET result == _analyze_token(Head(fr.mints), token_transactions,
                                 fr.transaction, metadata)
        cache == CachePut(resultsCache, result)
    IN /\ resultsCache' = cache
       /\ frame' = [frame EXCEPT ![t] =
                        [fr EXCEPT !.token_transactions = token_transactions,
                                   !.results = Append(@, result),
                                   !.data = cache]]
       /\ pc' = [pc EXCEPT ![t] = "save_open"]
       /\ hist' = [h EXCEPT !.put = (result.mint :> result) @@ @]

\* get_token_transactions returned: _analyze_token up to the metadata lookup,
\* which suspends only when an API key is set, helius_client.py:19-27
AfterGet(t, fr, token_transactions, h) ==
    IF api_key
    THEN /\ pc' = [pc EXCEPT ![t] = "fetch"]
         /\ frame' = [frame EXCEPT ![t] =
                          [fr EXCEPT !.token_transactions = token_transactions]]
         /\ hist' = h
         /\ UNCHANGED resultsCache
    ELSE EvaluateAndPut(t, fr, token_transactions,
                        get_token_metadata(FALSE, NoProbe.resp, Head(fr.mints)), h)

\* add_transaction after its read, storage.py:55-59
AfterLoad(t, loaded, h) ==
    LET fr == frame[t]
        tx_dict == fr.transaction
    IN IF ~HasSignature(loaded, tx_dict.signature)
       THEN /\ pc' = [pc EXCEPT ![t] = "add_open"]
            /\ frame' = [frame EXCEPT ![t] =
                            [fr EXCEPT !.transactions = Append(loaded, tx_dict)]]
            /\ hist' = h
       ELSE /\ pc' = [pc EXCEPT ![t] = "get_read"]
            /\ frame' = [frame EXCEPT ![t] = [fr EXCEPT !.transactions = loaded]]
            /\ hist' = [h EXCEPT
                           !.appended[Mint(t)] = @ \cup {tx_dict.signature},
                           !.after_append[t] = loaded]

----------------------------------------------------------------------------
(* The metadata service's answers *)

UriIpfs == IPFS_PREFIX \o <<"Q", "m">>

UriIpfsUpper ==
    <<"H", "T", "T", "P", "S", ":", "/", "/", "I", "P", "F", "S", ".", "I", "O", "/", "Q", "m">>

UriEvil == <<"h", "t", "t", "p", "s", ":", "/", "/", "e", "v", "i", "l", ".", "i", "o", "/">>

\* the prefix without its last character
UriShort == SubSeq(IPFS_PREFIX, 1, Len(IPFS_PREFIX) - 1)

Resp(kind, uri, metadata, nested) ==
    [kind |-> kind, uri |-> uri, metadata |-> metadata, nested |-> nested]

\* the service holds one URI per mint; a lookup answers it or fails
ServiceUri(mint) == IF mint = MintPump THEN UriIpfs ELSE UriEvil

\* a client without timeout whose request is never answered
FetchNeverAnswers(mint) == {}

\* the request ends within the client's timeout (helius_client.py:16), with
\* an error or with the service's answer
FetchResponses(mint) ==
    {Resp("network_error", None, "missing", None),
     Resp("ok", Some(ServiceUri(mint)), "missing", None)}

----------------------------------------------------------------------------
(* analyze_transaction, one action per await point *)

\* the webhook handlers run as interchangeable tasks: a new call takes the
\* first free one
FreeTask == IF pc["t1"] = "idle" THEN "t1" ELSE "t2"

\* a call of analyze_transaction, detector.py:22-36
StartCall(t, limit) ==
    /\ pc[t] = "idle"
    /\ t = FreeTask
    /\ hist.calls < limit
    /\ \E tx \in TxPool : \E order \in Perms(_extract_mints(tx)) :
          LET fr == [EmptyFrame EXCEPT !.transaction = tx, !.mints = order]
              h == [hist EXCEPT !.calls = @ + 1,
                                !.persist_failed[t] = FALSE,
                                !.after_append[t] = <<>>,
                                !.tx[t] = tx,
                                !.failed_mint[t] = <<>>,
                                !.computed[t] = <<>>]
          IN IF order = <<>>
             THEN /\ outcome' = [outcome EXCEPT ![t] = Returned(<<>>)]
                  /\ hist' = h
                  /\ UNCHANGED <<pc, frame>>
             ELSE /\ EnterMint(t, fr, h)
                  /\ outcome' = [outcome EXCEPT ![t] = NoOutcome]
    /\ UNCHANGED <<mintFiles, resultsFile, resultsCache, api_key, probe, probeOut>>

\* add_transaction reads the existing log, storage.py:49-53
AddRead(t) ==
    /\ pc[t] = "add_read"
    /\ AfterLoad(t, LoadTransactions(mintFiles[Mint(t)]), hist)
    /\ UNCHANGED <<mintFiles, resultsFile, resultsCache, api_key, outcome,
                   probe, probeOut>>

\* the open or the read raises: transactions stays [], storage.py:46,52-53
AddReadFail(t) ==
    /\ pc[t] = "add_read"
    /\ hist.faults < MaxFaults
    /\ AfterLoad(t, <<>>, [hist EXCEPT !.faults = @ + 1])
    /\ UNCHANGED <<mintFiles, resultsFile, resultsCache, api_key, outcome,
                   probe, probeOut>>

\* aiofiles.open(mint_file, 'w') truncates the file, storage.py:59
AddOpen(t) ==
    /\ pc[t] = "add_open"
    /\ mintFiles' = [mintFiles EXCEPT ![Mint(t)] = Truncated]
    /\ pc' = [pc EXCEPT ![t] = "add_write"]
    /\ UNCHANGED <<resultsFile, resultsCache, api_key, frame, outcome, hist,
                   probe, probeOut>>

\* the open raises; nothing catches it up to the caller of analyze_transaction
AddOpenFail(t) ==
    /\ pc[t] = "add_open"
    /\ hist.faults < MaxFaults
    /\ pc' = [pc EXCEPT ![t] = "idle"]
    /\ frame' = [frame EXCEPT ![t] = EmptyFrame]
    /\ outcome' = [outcome EXCEPT ![t] = Raised]
    /\ hist' = [hist EXCEPT !.faults = @ + 1,
                            !.failed_mint[t] = Mint(t),
                            !.computed[t] = frame[t].results]
    /\ UNCHANGED <<mintFiles, resultsFile, resultsCache, api_key, probe, probeOut>>

\* f.write(json.dumps(transactions)) and the close, then get_token_transactions
\* up to its await, storage.py:60,63-69
AddWrite(t) ==
    /\ pc[t] = "add_write"
    /\ mintFiles' = [mintFiles EXCEPT ![Mint(t)] = Json(frame[t].transactions)]
    /\ pc' = [pc EXCEPT ![t] = "get_read"]
    /\ hist' = [hist EXCEPT
                   !.appended[Mint(t)] = @ \cup {frame[t].transaction.signature},
                   !.after_append[t] = frame[t].transactions]
    /\ UNCHANGED <<resultsFile, resultsCache, api_key, frame, outcome,
                   probe, probeOut>>

\* the write raises: the file keeps what it holds, the exception propagates
AddWriteFail(t) ==
    /\ pc[t] = "add_write"
    /\ hist.faults < MaxFaults
    /\ pc' = [pc EXCEPT ![t] = "idle"]
    /\ frame' = [frame EXCEPT ![t] = EmptyFrame]
    /\ outcome' = [outcome EXCEPT ![t] = Raised]
    /\ hist' = [hist EXCEPT !.faults = @ + 1,
                            !.failed_mint[t] = Mint(t),
                            !.computed[t] = frame[t].results]
    /\ UNCHANGED <<mintFiles, resultsFile, resultsCache, api_key, probe, probeOut>>

\* get_token_transactions reads the log, storage.py:69-72
GetRead(t) ==
    /\ pc[t] = "get_read"
    /\ AfterGet(t, frame[t], get_token_transactions(mintFiles[Mint(t)]), hist)
    /\ UNCHANGED <<mintFiles, resultsFile, api_key, outcome, probe, probeOut>>

\* the open or the read raises: return [], storage.py:73-75
GetReadFail(t) ==
    /\ pc[t] = "get_read"
    /\ hist.faults < MaxFaults
    /\ AfterGet(t, frame[t], <<>>, [hist EXCEPT !.faults = @ + 1])
    /\ UNCHANGED <<mintFiles, resultsFile, api_key, outcome, probe, probeOut>>

\* the HTTP GET of get_token_metadata answers, helius_client.py:27-46
Fetch(t) ==
    /\ pc[t] = "fetch"
    /\ \E resp \in FetchResponses(Mint(t)) :
          EvaluateAndPut(t, frame[t], frame[t].token_transactions,
                         get_token_metadata(api_key, resp, Mint(t)), hist)
    /\ UNCHANGED <<mintFiles, resultsFile, api_key, outcome, probe, probeOut>>

\* aiofiles.open(results_file, 'w') truncates the file, storage.py:82
SaveOpen(t) ==
    /\ pc[t] = "save_open"
    /\ resultsFile' = Truncated
    /\ pc' = [pc EXCEPT ![t] = "save_write"]
    /\ UNCHANGED <<mintFiles, resultsCache, api_key, frame, outcome, hist,
                   probe, probeOut>>

\* the open raises: logged, storage.py:84-85
SaveOpenFail(t) ==
    /\ pc[t] = "save_open"
    /\ hist.faults < MaxFaults
    /\ NextMint(t, frame[t], [hist EXCEPT !.faults = @ + 1,
                                          !.persist_failed[t] = TRUE])
    /\ UNCHANGED <<mintFiles, resultsFile, resultsCache, api_key, probe, probeOut>>

\* f.write(json.dumps(data)) and the close, storage.py:83
SaveWrite(t) ==
    /\ pc[t] = "save_write"
    /\ resultsFile' = Json(frame[t].data)
    /\ NextMint(t, frame[t], hist)
    /\ UNCHANGED <<mintFiles, resultsCache, api_key, probe, probeOut>>

\* the write raises: logged, storage.py:84-85
SaveWriteFail(t) ==
    /\ pc[t] = "save_write"
    /\ hist.faults < MaxFaults
    /\ NextMint(t, frame[t], [hist EXCEPT !.faults = @ + 1,
                                          !.persist_failed[t] = TRUE])
    /\ UNCHANGED <<mintFiles, resultsFile, resultsCache, api_key, probe, probeOut>>

\* the process stops at any point and starts again: lifespan, main.py:32-33,
\* Storage.__init__ and initialize, storage.py:23-39
Restart ==
    /\ hist.restarts < MaxRestarts
    /\ pc' = [t \in Tasks |-> "idle"]
    /\ frame' = [t \in Tasks |-> EmptyFrame]
    /\ outcome' = [t \in Tasks |-> NoOutcome]
    /\ resultsCache' = initialize(resultsFile)
    /\ hist' = [hist EXCEPT !.restarts = @ + 1,
                            !.after_append = [t \in Tasks |-> <<>>],
                            !.persist_failed = [t \in Tasks |-> FALSE],
                            !.tx = [t \in Tasks |-> NoTx],
                            !.failed_mint = [t \in Tasks |-> <<>>],
                            !.computed = [t \in Tasks |-> <<>>],
                            !.put = initialize(resultsFile)]
    /\ UNCHANGED <<mintFiles, resultsFile, api_key, probe, probeOut>>

Start(t) == StartCall(t, MaxCalls)

StartSeq(t) == StartCall(t, MaxSeqCalls)

\* the steps of a call without I/O errors
Step(t) ==
    \/ AddRead(t)
    \/ AddOpen(t)
    \/ AddWrite(t)
    \/ GetRead(t)
    \/ Fetch(t)
    \/ SaveOpen(t)
    \/ SaveWrite(t)

\* the steps in which an I/O operation raises
Fault(t) ==
    \/ AddReadFail(t)
    \/ AddOpenFail(t)
    \/ AddWriteFail(t)
    \/ GetReadFail(t)
    \/ SaveOpenFail(t)
    \/ SaveWriteFail(t)

Next ==
    \/ \E t \in Tasks : Start(t)
    \/ \E t \in Tasks : Step(t)
    \/ \E t \in Tasks : Fault(t)
    \/ Restart

Spec == Init /\ [][Next]_vars

\* concurrent calls, no I/O error, no restart
NextConc ==
    \/ \E t \in Tasks : Start(t)
    \/ \E t \in Tasks : Step(t)

SpecConc == Init /\ [][NextConc]_vars

\* concurrent calls under the scheduling of the event loop: a task whose await
\* can complete is resumed (file I/O ends, the HTTP request ends within the
\* client's timeout, the ready queue is served in order)
FairPool == {T1, T1r}

StartFair(t) == StartCall(t, MaxFairCalls) /\ hist'.tx[t] \in FairPool

NextFair ==
    \/ \E t \in Tasks : StartFair(t)
    \/ \E t \in Tasks : Step(t)

SpecFair == Init /\ [][NextFair]_vars /\ \A t \in Tasks : WF_vars(Step(t))

\* one call at a time, no I/O error, no restart
Alone(t) == \A u \in Tasks \ {t} : pc[u] = "idle"

NextSeq ==
    \/ \E t \in Tasks : Alone(t) /\ StartSeq(t)
    \/ \E t \in Tasks : Alone(t) /\ Step(t)

SpecSeq == Init /\ [][NextSeq]_vars

\* one call at a time, I/O operations may raise, no restart
NextSeqFault ==
    \/ \E t \in Tasks : Alone(t) /\ StartSeq(t)
    \/ \E t \in Tasks : Alone(t) /\ Step(t)
    \/ \E t \in Tasks : Alone(t) /\ Fault(t)

SpecSeqFault == Init /\ [][NextSeqFault]_vars

----------------------------------------------------------------------------
(* The heuristics applied on their own to inputs drawn from bounded sets *)

SigNames == <<"sig1", "sig2", "sig3", "sig4", "sig5", "sig6", "sig7", "sig8">>

Slots == {100, 101, 102}

Amounts ==
    {Lamports(-1, 0), Lamports(0, 500000000), Lamports(30, 0), Lamports(30, 1),
     Lamports(35, 0)}

ProbeMints == Mints \cup {<<"u", "m", "p">>}

Uris == {UriIpfs, UriIpfsUpper, UriEvil, UriShort, <<>>}

OptUris == {None} \cup {Some(u) : u \in Uris}

Responses ==
    {Resp("network_error", None, "missing", None),
     Resp("http_error", None, "missing", None),
     Resp("not_dict", None, "missing", None)}
    \cup {Resp("ok", u, "missing", None) : u \in OptUris}
    \cup {Resp("ok", u, "null", None) : u \in OptUris}
    \cup {Resp("ok", u, "dict", n) : u \in OptUris, n \in OptUris}

BundleInputs ==
    UNION {{[i \in 1..k |-> Tx(SigNames[i], slots[i], i, <<>>, <<>>, <<>>)] :
                slots \in [1..k -> Slots]} : k \in 0..MaxBundleTxs}

\* the nativeTransfers of one transaction
NativeKinds ==
    {<<>>} \cup {<<a>> : a \in Amounts}
    \cup {<<Lamports(30, 0), Lamports(30, 1)>>,
          <<Lamports(35, 0), Lamports(0, 500000000)>>,
          <<Lamports(-1, 0), Lamports(30, 0)>>}

PurchaseInputs ==
    UNION {{[i \in 1..k |-> Tx(SigNames[i], 100, i, native[i], <<>>, <<>>)] :
                native \in [1..k -> NativeKinds]} : k \in 0..MaxPurchaseTxs}

TokenResponses ==
    {Resp("network_error", None, "missing", None),
     Resp("ok", Some(UriIpfs), "missing", None),
     Resp("ok", None, "dict", Some(UriEvil))}

TokenTxKinds ==
    {Tx("", slot, ts, native, <<>>, <<>>) :
        slot \in {100, 101}, ts \in {3, 5},
        native \in {<<>>, <<Lamports(35, 0)>>}}

TokenInputs ==
    UNION {{[i \in 1..k |-> [kinds[i] EXCEPT !.signature = SigNames[i]]] :
                kinds \in [1..k -> TokenTxKinds]} : k \in 0..MaxTokenTxs}

InitProbe(inputs) ==
    /\ SysInit
    /\ probe \in inputs
    /\ probeOut = <<>>

\* _check_bundle_pattern(transactions)
EvalBundle ==
    /\ probeOut = <<>>
    /\ probeOut' = <<_check_bundle_pattern(probe.txs)>>
    /\ UNCHANGED <<sysVars, probe>>

InitBundle == InitProbe({[NoProbe EXCEPT !.txs = txs] : txs \in BundleInputs})

SpecBundle == InitBundle /\ [][EvalBundle]_vars

\* _check_large_purchase(transactions)
EvalLarge ==
    /\ probeOut = <<>>
    /\ probeOut' = <<_check_large_purchase(probe.txs)>>
    /\ UNCHANGED <<sysVars, probe>>

InitLarge == InitProbe({[NoProbe EXCEPT !.txs = txs] : txs \in PurchaseInputs})

SpecLarge == InitLarge /\ [][EvalLarge]_vars

\* _check_metadata_url(mint) with the lookup it makes
EvalMetadata ==
    /\ probeOut = <<>>
    /\ probeOut' = <<_check_metadata_url(
                        get_token_metadata(probe.key, probe.resp, probe.mint))>>
    /\ UNCHANGED <<sysVars, probe>>

InitMetadata ==
    InitProbe({[NoProbe EXCEPT !.key = k, !.resp = r, !.mint = m] :
                  k \in BOOLEAN, r \in Responses, m \in ProbeMints})

SpecMetadata == InitMetadata /\ [][EvalMetadata]_vars

\* _analyze_token(mint, transactions, current_tx)
EvalToken ==
    /\ probeOut = <<>>
    /\ probeOut' = <<_analyze_token(probe.mint, probe.txs, probe.cur,
                        get_token_metadata(probe.key, probe.resp, probe.mint))>>
    /\ UNCHANGED <<sysVars, probe>>

InitToken ==
    InitProbe({[NoProbe EXCEPT !.txs = txs, !.mint = m, !.key = TRUE, !.resp = r,
                               !.cur = cur] :
                  txs \in TokenInputs, m \in ProbeMints, r \in TokenResponses,
                  cur \in {T1r, T2}})

SpecToken == InitToken /\ [][EvalToken]_vars

----------------------------------------------------------------------------
(* Properties *)

Log(m) == IF mintFiles[m].st = "json" THEN mintFiles[m].data ELSE <<>>

Occurrences(log, sig) ==
    Cardinality({i \in 1..Len(log) : log[i].signature = sig})

Appending(m) ==
    \E t \in Tasks : pc[t] \in {"add_read", "add_open", "add_write"} /\ Mint(t) = m

Evaluated(t) == pc[t] \in {"fetch", "save_open", "save_write"}

\* C1: when no append for a mint is in progress, every signature whose append
\* returned is in the mint's log exactly once.
C1_AppendsSerialize ==
    \A m \in Mints :
        ~Appending(m) =>
            \A sig \in hist.appended[m] : Occurrences(Log(m), sig) = 1

\* C2: the log a call evaluates is the log as the call's own append left it.
C2_AppendReadAtomic ==
    \A t \in Tasks :
        Evaluated(t) => frame[t].token_transactions = hist.after_append[t]

NoDuplicateSignatures ==
    \A m \in Mints : \A i, j \in 1..Len(Log(m)) :
        Log(m)[i].signature = Log(m)[j].signature => i = j

ResubmitKeepsLog ==
    \A t \in Tasks :
        (/\ pc[t] # "idle"
         /\ HasSignature(Log(Mint(t)), frame[t].transaction.signature))
        => mintFiles'[Mint(t)] = mintFiles[Mint(t)]

\* C3: in calls made one after the other no log ever holds a signature twice,
\* and a call whose signature is already in the mint's log leaves that log as
\* it is, whatever the other fields of the transaction are.
C3_AppendIdempotent == []NoDuplicateSignatures /\ [][ResubmitKeepsLog]_vars

C3_Witness ==
    \E t \in Tasks :
        /\ frame[t].transaction = T1r
        /\ pc[t] \in {"get_read", "fetch", "save_open", "save_write"}
        /\ Log(MintPump) = <<T1, T2>>

FlagOrder == <<"bundle", "large_purchase", "metadata_url", "mint_suffix">>

FlagOf(r, name) ==
    CASE name = "bundle" -> r.has_bundle
      [] name = "large_purchase" -> r.has_large_purchase
      [] name = "metadata_url" -> r.invalid_metadata_url
      [] name = "mint_suffix" -> r.invalid_mint_suffix

RaisedFlags(r) == {i \in 1..Len(FlagOrder) : FlagOf(r, FlagOrder[i])}

ReasonsInOrder(r) ==
    \A k \in 1..Len(r.reasons) :
        /\ \E i \in RaisedFlags(r) :
              /\ r.reasons[k] = FlagOrder[i]
              /\ Cardinality({j \in RaisedFlags(r) : j < i}) = k - 1

ResultConsistent(r) ==
    /\ r.is_scam = (RaisedFlags(r) # {})
    /\ Len(r.reasons) = Cardinality(RaisedFlags(r))
    /\ ReasonsInOrder(r)
    /\ RaisedFlags(r) = {} => ~r.is_scam /\ r.reasons = <<>>

\* C4: in every result of _analyze_token is_scam is the OR of the four flags
\* and reasons holds one reason per raised flag, in the fixed order.
C4_ScamIsOrOfFlags ==
    /\ \A r \in Range(probeOut) : ResultConsistent(r)
    /\ \A m \in DOMAIN resultsCache : ResultConsistent(resultsCache[m])

C4_Witness ==
    \E r \in Range(probeOut) :
        /\ RaisedFlags(r) = 1..4
        /\ r.reasons = FlagOrder
        /\ r.is_scam

GroupSize(txs, i) == Cardinality({j \in 1..Len(txs) : txs[j].slot = txs[i].slot})

SharesSlot(txs) == \E i \in 1..Len(txs) : GroupSize(txs, i) >= 2

LargestGroup(txs) ==
    CHOOSE n \in {GroupSize(txs, i) : i \in 1..Len(txs)} :
        \A i \in 1..Len(txs) : GroupSize(txs, i) <= n

FirstBundled(txs) ==
    CHOOSE i \in 1..Len(txs) :
        /\ GroupSize(txs, i) >= 2
        /\ \A j \in 1..(i - 1) : GroupSize(txs, j) < 2

\* C5 as stated: when two transactions share a slot, has_bundle is true and
\* the evidence is the size of the largest same-slot group.
C5_EvidenceIsLargestGroup ==
    \A b \in Range(probeOut) :
        SharesSlot(probe.txs) =>
            b[1] /\ b[2] = Some(LargestGroup(probe.txs))

\* C5 amended: when two transactions share a slot, has_bundle is true and the
\* evidence is the size of the group of the first transaction of the list
\* whose slot is shared.
C5_EvidenceIsFirstGroup ==
    \A b \in Range(probeOut) :
        SharesSlot(probe.txs) =>
            b[1] /\ b[2] = Some(GroupSize(probe.txs, FirstBundled(probe.txs)))

C5_Witness ==
    \E b \in Range(probeOut) :
        /\ SharesSlot(probe.txs)
        /\ b[2] = Some(2)
        /\ LargestGroup(probe.txs) = 3

AllAmounts(txs) == UNION {Range(txs[i].nativeTransfers) : i \in 1..Len(txs)}

LamportsGT(a, b) == a.hi > b.hi \/ (a.hi = b.hi /\ a.lo > b.lo)

MaxLamports(A) == CHOOSE a \in A : \A b \in A : ~LamportsGT(b, a)

\* more than 30 * 10^9 lamports
Over30Sol(a) == a.hi > 30 \/ (a.hi = 30 /\ a.lo > 0)

\* C6: has_large_purchase is true exactly when the largest native transfer is
\* more than 30 SOL; max_purchase_sol is that maximum then, and absent
\* otherwise.
C6_LargePurchaseThreshold ==
    \A l \in Range(probeOut) :
        LET A == AllAmounts(probe.txs)
            large == A # {} /\ Over30Sol(MaxLamports(A))
        IN /\ l[1] = large
           /\ l[2] = IF large
                     THEN Some(Sol(MaxLamports(A).hi, MaxLamports(A).lo))
                     ELSE None

C6_Witness ==
    \E l \in Range(probeOut) :
        /\ AllAmounts(probe.txs) # {}
        /\ MaxLamports(AllAmounts(probe.txs)) = Lamports(30, 0)
        /\ l = <<FALSE, None>>

CasePairs ==
    {{"H", "h"}, {"T", "t"}, {"P", "p"}, {"S", "s"}, {"I", "i"}, {"F", "f"},
     {"O", "o"}, {"Q", "q"}, {"E", "e"}, {"V", "v"}, {"L", "l"}, {"M", "m"},
     {"U", "u"}}

SameLetter(c, d) == c = d \/ {c, d} \in CasePairs

StartsWithIgnoringCase(s, prefix) ==
    /\ Len(s) >= Len(prefix)
    /\ \A i \in 1..Len(prefix) : SameLetter(s[i], prefix[i])

\* the metadata has a non-empty URI that is not under https://ipfs.io/
UntrustedUri(metadata) ==
    \E m \in metadata : \E uri \in m.uri :
        uri # <<>> /\ ~StartsWithIgnoringCase(uri, IPFS_PREFIX)

FetchFailed(p) == ~p.key \/ p.resp.kind # "ok"

\* C7: invalid_metadata_url is true exactly when the lookup returned metadata
\* with a non-empty URI that does not start, ignoring case, with
\* https://ipfs.io/; it is false whenever the lookup failed.
C7_MetadataUrlFlag ==
    \A flag \in Range(probeOut) :
        /\ flag = UntrustedUri(get_token_metadata(probe.key, probe.resp, probe.mint))
        /\ FetchFailed(probe) => flag = FALSE

C7_Witness ==
    /\ probeOut = <<FALSE>>
    /\ probe.key
    /\ probe.resp = Resp("ok", None, "dict", Some(UriIpfsUpper))

\* C8: the result store holds one entry per mint ever put, the last value put
\* for it; a mint never put is not found.
C8_StoreHoldsLastPut ==
    /\ Cardinality(get_all_results(resultsCache)) = Cardinality(DOMAIN hist.put)
    /\ get_all_results(resultsCache) = {hist.put[m] : m \in DOMAIN hist.put}
    /\ \A m \in Mints :
          get_result(resultsCache, m) =
              IF m \in DOMAIN hist.put THEN Some(hist.put[m]) ELSE None

C8_Witness ==
    /\ DOMAIN resultsCache = Mints
    /\ resultsCache[MintPump].total_transactions = 2

SavesDone == \A t \in Tasks : pc[t] \notin {"save_open", "save_write"}

\* C9: once no save_result is in progress, the results file holds the
\* in-memory store: initialize would load the store as it is.
C9_FileHoldsStore == SavesDone => initialize(resultsFile) = resultsCache

\* C10: a call in which a write of the results file raised tells its caller
\* of the failure and still returns the classifications.
C10_PersistFailureReported ==
    \A t \in Tasks :
        (pc[t] = "idle" /\ hist.persist_failed[t]) =>
            /\ outcome[t].error
            /\ outcome[t].results # <<>>

\* C11: when the log write of one mint raises in a call, every other mint of
\* the call's transaction is still appended and stored, and the results the
\* call had computed are returned to the caller.
C11_FailureIsolated ==
    \A t \in Tasks :
        outcome[t].kind = "raised" =>
            /\ \A m \in _extract_mints(hist.tx[t]) \ {hist.failed_mint[t]} :
                  /\ hist.tx[t].signature \in hist.appended[m]
                  /\ m \in DOMAIN resultsCache
            /\ outcome[t].results = hist.computed[t]

Evaluating(t, m) ==
    /\ pc[t] \in {"add_read", "add_open", "add_write", "get_read", "fetch"}
    /\ Mint(t) = m

\* the call has just stored the result it computed for m
StoredOwn(t, m) ==
    /\ pc[t] = "save_open"
    /\ Mint(t) = m
    /\ frame[t].results # <<>>
    /\ resultsCache[m] = frame[t].results[Len(frame[t].results)]

\* the lookup of the call ends and a lookup that failed leaves the flag false
LookupEnds(t) ==
    (pc[t] = "fetch" /\ pc'[t] # "fetch") =>
        /\ StoredOwn(t, Mint(t))'
        /\ resultsCache'[Mint(t)].invalid_metadata_url =>
              /\ api_key
              /\ ~StartsWithIgnoringCase(ServiceUri(Mint(t)), IPFS_PREFIX)

Returns(t) ==
    /\ outcome'[t].kind = "returned"
    /\ pc'[t] = "idle"
    /\ \/ pc[t] # "idle"
       \/ hist'.calls # hist.calls /\ t = FreeTask

\* the mints a transaction references: a non-empty mint of a token transfer
\* or of a token balance change
ReferencedMints(tx) ==
    {m \in Mints :
        \/ \E i \in 1..Len(tx.tokenTransfers) : tx.tokenTransfers[i] = m
        \/ \E i \in 1..Len(tx.accountData) :
              \E j \in 1..Len(tx.accountData[i]) : tx.accountData[i][j] = m}

ReturnsOnePerMint(t) ==
    LET tx == hist'.tx[t]
        results == outcome'[t].results
    IN /\ Len(results) = Cardinality(ReferencedMints(tx))
       /\ {results[i].mint : i \in 1..Len(results)} = ReferencedMints(tx)
       /\ \A m \in ReferencedMints(tx) : HasSignature(Log(m)', tx.signature)
       /\ ReferencedMints(tx) = {} =>
              /\ results = <<>>
              /\ UNCHANGED <<mintFiles, resultsFile, resultsCache>>

\* C13: a call that returns gives exactly one result per distinct mint the
\* transaction references and the transaction's signature is then in the log
\* of each of them; with no mint it returns the empty list and changes no log
\* and no stored result.
C13_OneResultPerMint == [][\A t \in Tasks : Returns(t) => ReturnsOnePerMint(t)]_vars

\* C14: for a log with fewer than two transactions has_bundle is false and
\* bundle_index_gap is absent, whatever the slots.
C14_ShortLogNoBundle ==
    \A b \in Range(probeOut) :
        Len(probe.txs) < 2 => b[1] = FALSE /\ b[2] = None

C14_Witness ==
    /\ probeOut # <<>>
    /\ Len(probe.txs) = 1
    /\ probe.txs[1].slot = 102

\* the call of task t reads the log of its mint in this step
ReadsLog(t) == pc[t] = "get_read" /\ pc'[t] # "get_read"

\* what the read returned holds every transaction whose append completed
ReadSeesAppends(t) ==
    \A sig \in hist.appended[Mint(t)] :
        HasSignature(frame'[t].token_transactions, sig)

\* C15: reading the log of a mint that has none gives the empty sequence, and
\* every transaction whose append completed is in what a later read of that
\* mint's log returns, also after a restart.
C15_AppendsObservable ==
    /\ [](\A m \in Mints :
            ~exists(mintFiles[m]) => get_token_transactions(mintFiles[m]) = <<>>)
    /\ [][\A t \in Tasks : ReadsLog(t) => ReadSeesAppends(t)]_vars

AllCompleted == \A t \in Tasks : pc[t] = "idle"

\* the stored result of m counts the entries of m's log
StoredFromFinalLog(m) == resultsCache[m].total_transactions = Len(Log(m))

\* a stored result is not replaced by one computed from a shorter log
NeverReplacedByOlder ==
    \A m \in DOMAIN resultsCache :
        m \in DOMAIN resultsCache' /\
        resultsCache'[m].total_transactions >= resultsCache[m].total_transactions

\* C16: when all calls have completed, the stored result of a mint is the one
\* computed from the mint's complete final log, and a result computed from a
\* shorter log never replaces one computed from a longer log.
C16_StoredResultIsNewest ==
    /\ [](AllCompleted => \A m \in DOMAIN resultsCache : StoredFromFinalLog(m))
    /\ [][NeverReplacedByOlder]_vars

\* the position in the log of the first transaction of a slot
FirstIndex(txs, slot) ==
    CHOOSE i \in 1..Len(txs) :
        txs[i].slot = slot /\ \A j \in 1..(i - 1) : txs[j].slot # slot

SlotsOf(txs) == {txs[i].slot : i \in 1..Len(txs)}

TxsInSlot(txs, slot) == Cardinality({i \in 1..Len(txs) : txs[i].slot = slot})

\* slot is the earliest appearing slot of the log that holds two transactions
FirstSharedSlot(txs, slot) ==
    /\ TxsInSlot(txs, slot) >= 2
    /\ \A other \in SlotsOf(txs) :
          FirstIndex(txs, other) < FirstIndex(txs, slot) => TxsInSlot(txs, other) < 2

\* the log with everything but the slots blanked
SlotsOnly(txs) == [i \in 1..Len(txs) |-> Tx("", txs[i].slot, 0, <<>>, <<>>, <<>>)]

\* C17: when has_bundle is true, bundle_index_gap is the number of
\* transactions in the first slot, by first appearance in the log, that holds
\* at least two transactions; the outcome depends on the sequence of slots only.
C17_GapIsFirstSharedSlotSize ==
    \A b \in Range(probeOut) :
        /\ b[1] => \E slot \in SlotsOf(probe.txs) :
                      /\ FirstSharedSlot(probe.txs, slot)
                      /\ b[2] = Some(TxsInSlot(probe.txs, slot))
        /\ b = _check_bundle_pattern(SlotsOnly(probe.txs))

\* the first slot of the log holds one transaction, two later slots hold
\* two and three
C17_Witness ==
    \E b \in Range(probeOut) :
        /\ Len(probe.txs) = 5
        /\ TxsInSlot(probe.txs, probe.txs[1].slot) = 1
        /\ probe.txs[2].slot = probe.txs[5].slot
        /\ probe.txs[3].slot = probe.txs[4].slot
        /\ probe.txs[2].slot # probe.txs[3].slot
        /\ b = <<TRUE, Some(2)>>

\* the call of task t computes the result of its mint in this step
Evaluates(t) == pc[t] \in {"get_read", "fetch"} /\ pc'[t] = "save_open"

\* the result against the log the call read after appending its transaction
ResultDescribesLog(t) ==
    LET T == frame'[t].transaction
        read == frame'[t].token_transactions
        r == frame'[t].results[Len(frame'[t].results)]
    IN /\ r.mint = Mint(t)
       /\ T.signature \in hist.appended[Mint(t)]
       /\ r.last_updated = T.timestamp
       /\ r.total_transactions = Len(read)
       /\ read = <<>> => r.first_seen = T.timestamp
       /\ read # <<>> =>
             /\ \E i \in 1..Len(read) : r.first_seen = read[i].timestamp
             /\ \A i \in 1..Len(read) : r.first_seen <= read[i].timestamp

ActsOn(t, m) ==
    /\ pc[t] # "idle"
    /\ Mint(t) = m
    /\ pc'[t] # pc[t] \/ frame'[t] # frame[t]

\* the log and the stored result of m are what they were
MintUntouched(m) ==
    /\ mintFiles'[m] = mintFiles[m]
    /\ get_token_transactions(mintFiles'[m]) = get_token_transactions(mintFiles[m])
    /\ get_result(resultsCache', m) = get_result(resultsCache, m)

IsPrefix(s, t) == Len(s) <= Len(t) /\ SubSeq(t, 1, Len(s)) = s

\* add_transaction of task t starts rewriting the log file in this step
OpensLog(t) == pc[t] = "add_open" /\ pc'[t] = "add_write"

\* C20: each mint's log is append-only: what a call starts writing over the
\* log extends the log, and whenever a step leaves a written log file, the log
\* before the step is a prefix of the log after it; also when the read inside
\* add_transaction fails and when appends interleave.
C20_LogAppendOnly ==
    /\ [][\A t \in Tasks :
            OpensLog(t) => IsPrefix(Log(Mint(t)), frame[t].transactions)]_vars
    /\ [][\A m \in Mints :
            mintFiles'[m] # Truncated => IsPrefix(Log(m), Log(m)')]_vars

\* C21: every result in the result store has first_seen less than or equal
\* to last_updated, after any sequence of calls, including the resubmission
\* of a logged signature with another timestamp and transactions arriving out
\* of timestamp order.
C21_FirstSeenNotAfterLastUpdated ==
    \A m \in DOMAIN resultsCache :
        resultsCache[m].first_seen <= resultsCache[m].last_updated

====
